---- MODULE Spec2Model ----
(***************************************************************************)
(* A model of app.py, the SuperStore KPI dashboard script.                 *)
(*                                                                         *)
(* One run of the script is a straight line of sections: load the data,    *)
(* four cascading multi-selects, the date range, the granularity, the      *)
(* current-period KPIs, the previous period, the period comparison and the *)
(* charts.  Each section is one action; the widgets' values are the        *)
(* actions' inputs.  Streamlit runs the script again on every interaction, *)
(* with the cached data frame: the Rerun action.                           *)
(*                                                                         *)
(* Representation.                                                         *)
(*  - A data frame is a sequence of rows; a row is a record that carries   *)
(*    its pandas index label in the field Index.                           *)
(*  - An Order Date is a whole day, counted in days from 2024-01-01 (a     *)
(*    Monday), day 0.                                                      *)
(*  - A missing categorical value (NaN) is the value NA.                   *)
(*  - Sales and Profit are integers (currency units), Quantity a natural.  *)
(*  - A ratio is an exact fraction [n, d] in lowest terms with d > 0; a    *)
(*    division by zero yields the value DivByZero.                         *)
(*  - A Product Name is a number: the rank of the name in lexical order.   *)
(***************************************************************************)
EXTENDS Integers, Sequences, FiniteSets, TLC

VARIABLES
    pc,                  \* the section of the script that runs next
    df_original,         \* the loaded data frame
    all_regions, all_states, all_categories, all_subcats,
    selected_regions, selected_states, selected_categories, selected_subcats,
    df_filtered,
    min_date, max_date, from_date, to_date,
    date_error,          \* st.sidebar.error was shown
    time_granularity,
    total_sales, total_quantity, total_profit, margin_rate,
    previous_from, previous_to, df_previous,
    prev_sales, prev_quantity, prev_profit, prev_margin,
    selected_kpi, current_kpi_value, previous_kpi_value, kpi_change,
    no_data_warning,     \* st.warning was shown
    grouped, product_grouped, top_10

vars == <<pc, df_original,
          all_regions, all_states, all_categories, all_subcats,
          selected_regions, selected_states, selected_categories, selected_subcats,
          df_filtered, min_date, max_date, from_date, to_date, date_error,
          time_granularity,
          total_sales, total_quantity, total_profit, margin_rate,
          previous_from, previous_to, df_previous,
          prev_sales, prev_quantity, prev_profit, prev_margin,
          selected_kpi, current_kpi_value, previous_kpi_value, kpi_change,
          no_data_warning, grouped, product_grouped, top_10>>

regionVars == <<all_regions, selected_regions>>
stateVars == <<all_states, selected_states>>
categoryVars == <<all_categories, selected_categories>>
subcatVars == <<all_subcats, selected_subcats>>
dateVars == <<min_date, max_date, from_date, to_date, date_error>>
currentVars == <<total_sales, total_quantity, total_profit, margin_rate>>
previousVars == <<previous_from, previous_to, df_previous,
                  prev_sales, prev_quantity, prev_profit, prev_margin>>
compareVars == <<selected_kpi, current_kpi_value, previous_kpi_value, kpi_change>>
chartVars == <<no_data_warning, grouped, product_grouped, top_10>>

-----------------------------------------------------------------------------
(* Bounds of the model.                                                    *)

\* The longest data frame of the two families of small data frames.
MaxRecords == 2

\* The number of rows, one per product, of the data frames of the wide family.
WideLen == 11

-----------------------------------------------------------------------------
(* Dates: days from 2024-01-01.                                            *)

DaysInMonth == <<31, 29, 31, 30, 31, 30, 31, 31, 30, 31, 30, 31>>

RECURSIVE MonthStart(_)
\* The day number of the first day of month m of 2024.
MonthStart(m) == IF m = 1 THEN 0 ELSE MonthStart(m - 1) + DaysInMonth[m - 1]

\* The day number of 2024-m-d.
Date(m, d) == MonthStart(m) + d - 1

\* timedelta(days=n)
timedelta(n) == n

\* The month (1..12) of a day of 2024.
MonthOf(day) ==
    CHOOSE m \in 1..12 : MonthStart(m) <= day /\ day < MonthStart(m) + DaysInMonth[m]

\* The bin label of freq="M": the last day of the day's month.
MonthEnd(day) == MonthStart(MonthOf(day)) + DaysInMonth[MonthOf(day)] - 1

\* The bin label of freq="W" (W-SUN): the Sunday on or after the day.
WeekEnd(day) == day + (6 - (day % 7))

-----------------------------------------------------------------------------
(* Exact fractions.                                                        *)

Abs(x) == IF x < 0 THEN -x ELSE x

RECURSIVE GCD(_, _)
GCD(a, b) == IF b = 0 THEN a ELSE GCD(b, a % b)

\* What a division by zero yields (inf, nan or an exception).
DivByZero == [n |-> 1, d |-> 0]

\* The fraction n/d in lowest terms, d /= 0.
Frac(n, d) ==
    LET g == GCD(Abs(n), Abs(d))
        s == IF d < 0 THEN -1 ELSE 1
    IN  [n |-> s * (n \div g), d |-> s * (d \div g)]

\* An integer as a fraction.
Num(x) == [n |-> x, d |-> 1]

\* Python's a / b on numbers.
Div(a, b) ==
    IF a = DivByZero \/ b = DivByZero \/ b.n = 0 THEN DivByZero
    ELSE Frac(a.n * b.d, a.d * b.n)

Sub(a, b) ==
    IF a = DivByZero \/ b = DivByZero THEN DivByZero
    ELSE Frac(a.n * b.d - b.n * a.d, a.d * b.d)

Mul(a, b) ==
    IF a = DivByZero \/ b = DivByZero THEN DivByZero
    ELSE Frac(a.n * b.n, a.d * b.d)

\* a < b on fractions.
Less(a, b) == a.n * b.d < b.n * a.d

-----------------------------------------------------------------------------
(* The data frames the script may be started on.                           *)

NA == "NaN"

Granularities == {"Daily", "Weekly", "Monthly"}

kpi_options == <<"Sales", "Quantity", "Profit", "Margin Rate">>

BaseRow ==
    [OrderDate |-> Date(2, 1), Region |-> "East", State |-> "California",
     Category |-> "Furniture", SubCategory |-> "Chairs", ProductName |-> 1,
     Sales |-> 100, Quantity |-> 2, Profit |-> 20]

\* Rows that differ from BaseRow in one categorical value or in the date.
FilterRows ==
    {BaseRow}
    \cup {[BaseRow EXCEPT !.Region = v] : v \in {"West", NA}}
    \cup {[BaseRow EXCEPT !.State = v] : v \in {"Texas", NA}}
    \cup {[BaseRow EXCEPT !.Category = NA], [BaseRow EXCEPT !.SubCategory = NA]}
    \cup {[BaseRow EXCEPT !.OrderDate = Date(2, 10)]}

\* Rows that differ from BaseRow in the date, the product or the amounts.
AggRows ==
    {BaseRow}
    \cup {[BaseRow EXCEPT !.OrderDate = v] : v \in {Date(2, 2), Date(4, 15)}}
    \cup {[BaseRow EXCEPT !.ProductName = 2]}
    \cup {[BaseRow EXCEPT !.Sales = 50, !.Quantity = 1, !.Profit = -10],
          [BaseRow EXCEPT !.Sales = 0, !.Quantity = 1, !.Profit = 5]}

\* The non-empty sequences over S of length at most n.
SeqsUpTo(S, n) == UNION {[1..k -> S] : k \in 1..n}

\* The amounts of the wide family: distinct from product to product, but for
\* the products t and t + 1, which have the same amounts.
WideLevel(p, t) == IF p = t + 1 THEN t ELSE p

WideRow(p, t) ==
    [BaseRow EXCEPT !.ProductName = p,
                    !.Sales = 10 * WideLevel(p, t),
                    !.Quantity = WideLevel(p, t),
                    !.Profit = ((7 * WideLevel(p, t)) % 13) - 6]

\* One row per product, more products than the top-10 chart shows.
WideSheets == {[p \in 1..WideLen |-> WideRow(p, t)] : t \in 1..(WideLen - 1)}

Sheets ==
    SeqsUpTo(FilterRows, MaxRecords) \cup SeqsUpTo(AggRows, MaxRecords) \cup WideSheets

\* pd.read_excel: the sheet's rows under a RangeIndex.
load_data(sheet) ==
    [i \in 1..Len(sheet) |->
        [Index |-> i - 1, OrderDate |-> sheet[i].OrderDate,
         Region |-> sheet[i].Region, State |-> sheet[i].State,
         Category |-> sheet[i].Category, SubCategory |-> sheet[i].SubCategory,
         ProductName |-> sheet[i].ProductName, Sales |-> sheet[i].Sales,
         Quantity |-> sheet[i].Quantity, Profit |-> sheet[i].Profit]]

-----------------------------------------------------------------------------
(* pandas operations.                                                      *)

\* sorted(df[col].dropna().unique()), as the set of its elements.
DistinctValues(df, col) == {df[i][col] : i \in 1..Len(df)} \ {NA}

\* A filter that returns the matching rows in another order.
IsInReversed(df, col, selected) ==
    LET kept == SelectSeq(df, LAMBDA r : r[col] \in selected)
    IN  [i \in 1..Len(kept) |-> kept[Len(kept) + 1 - i]]

\* df[df[col].isin(selected)]
IsIn(df, col, selected) == SelectSeq(df, LAMBDA r : r[col] \in selected)

\* The cascade step without its "if selected:" guard.
ApplySelectionStrict(df, col, selected) == IsIn(df, col, selected)

\* The four cascade steps: "if selected: df = df[df[col].isin(selected)]".
ApplySelection(df, col, selected) ==
    IF selected /= {} THEN IsIn(df, col, selected) ELSE df

\* The date filter with "|" in the place of "&".
BetweenEither(df, lo, hi) ==
    SelectSeq(df, LAMBDA r : r.OrderDate >= lo \/ r.OrderDate <= hi)

\* df[(df["Order Date"] >= lo) & (df["Order Date"] <= hi)]
Between(df, lo, hi) == SelectSeq(df, LAMBDA r : r.OrderDate >= lo /\ r.OrderDate <= hi)

RECURSIVE ColumnSum(_, _)
\* df[col].sum()
ColumnSum(df, col) ==
    IF df = <<>> THEN 0 ELSE df[1][col] + ColumnSum(Tail(df), col)

\* df["Order Date"].min() and .max() of a non-empty frame.
DateMin(df) ==
    CHOOSE d \in {df[i].OrderDate : i \in 1..Len(df)} :
        \A j \in 1..Len(df) : d <= df[j].OrderDate
DateMax(df) ==
    CHOOSE d \in {df[i].OrderDate : i \in 1..Len(df)} :
        \A j \in 1..Len(df) : d >= df[j].OrderDate

-----------------------------------------------------------------------------
(* The script.                                                             *)

Init ==
    /\ pc = "regions"
    /\ \E sheet \in Sheets : df_original = load_data(sheet)
    /\ all_regions = {} /\ all_states = {} /\ all_categories = {} /\ all_subcats = {}
    /\ selected_regions = {} /\ selected_states = {}
    /\ selected_categories = {} /\ selected_subcats = {}
    /\ df_filtered = <<>>
    /\ min_date = 0 /\ max_date = 0 /\ from_date = 0 /\ to_date = 0
    /\ date_error = FALSE
    /\ time_granularity = "Daily"
    /\ total_sales = 0 /\ total_quantity = 0 /\ total_profit = 0
    /\ margin_rate = Num(0)
    /\ previous_from = 0 /\ previous_to = 0 /\ df_previous = <<>>
    /\ prev_sales = 0 /\ prev_quantity = 0 /\ prev_profit = 0
    /\ prev_margin = Num(0)
    /\ selected_kpi = "Sales"
    /\ current_kpi_value = Num(0) /\ previous_kpi_value = Num(0)
    /\ kpi_change = Num(0)
    /\ no_data_warning = FALSE
    /\ grouped = <<>> /\ product_grouped = <<>> /\ top_10 = <<>>


-----------------------------------------------------------------------------
(* The sidebar: filters.                                                   *)

\* st.sidebar.multiselect(options=...): any subset of the options.
multiselect(options) == SUBSET options

\* Lines 35-40: the Region multi-select and its filter.
RegionFilter ==
    /\ pc = "regions"
    /\ all_regions' = DistinctValues(df_original, "Region")
    /\ \E sel \in multiselect(all_regions') :
        /\ selected_regions' = sel
        /\ df_filtered' = ApplySelection(df_original, "Region", sel)
    /\ pc' = "states"
    /\ UNCHANGED <<df_original, stateVars, categoryVars, subcatVars, dateVars,
                   time_granularity, currentVars, previousVars, compareVars,
                   chartVars>>

\* Lines 43-46: the State multi-select and its filter.
StateFilter ==
    /\ pc = "states"
    /\ all_states' = DistinctValues(df_filtered, "State")
    /\ \E sel \in multiselect(all_states') :
        /\ selected_states' = sel
        /\ df_filtered' = ApplySelection(df_filtered, "State", sel)
    /\ pc' = "categories"
    /\ UNCHANGED <<df_original, regionVars, categoryVars, subcatVars, dateVars,
                   time_granularity, currentVars, previousVars, compareVars,
                   chartVars>>

\* Lines 49-52: the Category multi-select and its filter.
CategoryFilter ==
    /\ pc = "categories"
    /\ all_categories' = DistinctValues(df_filtered, "Category")
    /\ \E sel \in multiselect(all_categories') :
        /\ selected_categories' = sel
        /\ df_filtered' = ApplySelection(df_filtered, "Category", sel)
    /\ pc' = "subcats"
    /\ UNCHANGED <<df_original, regionVars, stateVars, subcatVars, dateVars,
                   time_granularity, currentVars, previousVars, compareVars,
                   chartVars>>

\* Lines 55-58: the Sub-Category multi-select and its filter.
SubCategoryFilter ==
    /\ pc = "subcats"
    /\ all_subcats' = DistinctValues(df_filtered, "SubCategory")
    /\ \E sel \in multiselect(all_subcats') :
        /\ selected_subcats' = sel
        /\ df_filtered' = ApplySelection(df_filtered, "SubCategory", sel)
    /\ pc' = "dates"
    /\ UNCHANGED <<df_original, regionVars, stateVars, categoryVars, dateVars,
                   time_granularity, currentVars, previousVars, compareVars,
                   chartVars>>

\* st.sidebar.date_input(min_value=lo, max_value=hi): a day of [lo, hi].  The
\* days tried are the two ends.
date_input(lo, hi) == {lo, hi}

\* pd.to_datetime of a date: midnight of that day.
to_datetime(d) == d

\* Lines 60-75: the date range, its validation and the date filter.
DateRange ==
    /\ pc = "dates"
    /\ LET source == IF df_filtered = <<>> THEN df_original ELSE df_filtered
       IN  /\ min_date' = DateMin(source)
           /\ max_date' = DateMax(source)
    /\ \E f \in date_input(min_date', max_date'),
          t \in date_input(min_date', max_date') :
        /\ from_date' = f
        /\ to_date' = t
        /\ date_error' = (f > t)
        /\ df_filtered' = Between(df_filtered, to_datetime(f), to_datetime(t))
    /\ pc' = "granularity"
    /\ UNCHANGED <<df_original, regionVars, stateVars, categoryVars, subcatVars,
                   time_granularity, currentVars, previousVars, compareVars,
                   chartVars>>

\* Line 79: the granularity radio.
TimeGranularity ==
    /\ pc = "granularity"
    /\ \E g \in Granularities : time_granularity' = g
    /\ pc' = "kpis"
    /\ UNCHANGED <<df_original, regionVars, stateVars, categoryVars, subcatVars,
                   df_filtered, dateVars, currentVars, previousVars, compareVars,
                   chartVars>>

-----------------------------------------------------------------------------
(* The KPIs of the current and of the previous period.                     *)

\* "profit / sales if sales != 0 else 0" (lines 96, 121 and 214).
MarginOrZero(profit, sales) ==
    IF sales /= 0 THEN Div(Num(profit), Num(sales)) ELSE Num(0)

\* Lines 90-96: the KPIs of the current period.
CurrentKpis ==
    /\ pc = "kpis"
    /\ IF df_filtered = <<>>
       THEN /\ total_sales' = 0
            /\ total_quantity' = 0
            /\ total_profit' = 0
            /\ margin_rate' = Num(0)
       ELSE /\ total_sales' = ColumnSum(df_filtered, "Sales")
            /\ total_quantity' = ColumnSum(df_filtered, "Quantity")
            /\ total_profit' = ColumnSum(df_filtered, "Profit")
            /\ margin_rate' = MarginOrZero(total_profit', total_sales')
    /\ pc' = "previous"
    /\ UNCHANGED <<df_original, regionVars, stateVars, categoryVars, subcatVars,
                   df_filtered, dateVars, time_granularity, previousVars,
                   compareVars, chartVars>>

\* Line 99: period_length, in days.
PeriodLength(from, to) == to_datetime(to) - to_datetime(from)

\* previous_from without the day between the two periods.
PreviousFromNoGap(from, to) == to_datetime(from) - PeriodLength(from, to)

\* Line 100: previous_from.
PreviousFrom(from, to) == to_datetime(from) - PeriodLength(from, to) - timedelta(1)

\* Line 101: previous_to.
PreviousTo(from, to) == to_datetime(from) - timedelta(1)

\* Lines 106-113: the four selections applied to the previous period's rows.
SameFilters(df) ==
    ApplySelection(
        ApplySelection(
            ApplySelection(
                ApplySelection(df, "Region", selected_regions),
                "State", selected_states),
            "Category", selected_categories),
        "SubCategory", selected_subcats)

\* Lines 99-121: the previous period, its rows and its KPIs.
PreviousPeriod ==
    /\ pc = "previous"
    /\ previous_from' = PreviousFrom(from_date, to_date)
    /\ previous_to' = PreviousTo(from_date, to_date)
    /\ df_previous' = SameFilters(Between(df_original, previous_from', previous_to'))
    /\ IF df_previous' = <<>>
       THEN /\ prev_sales' = 0
            /\ prev_quantity' = 0
            /\ prev_profit' = 0
            /\ prev_margin' = Num(0)
       ELSE /\ prev_sales' = ColumnSum(df_previous', "Sales")
            /\ prev_quantity' = ColumnSum(df_previous', "Quantity")
            /\ prev_profit' = ColumnSum(df_previous', "Profit")
            /\ prev_margin' = MarginOrZero(prev_profit', prev_sales')
    /\ pc' = "compare"
    /\ UNCHANGED <<df_original, regionVars, stateVars, categoryVars, subcatVars,
                   df_filtered, dateVars, time_granularity, currentVars,
                   compareVars, chartVars>>

\* Lines 202-214: get_kpi_value.
get_kpi_value(dataframe, kpi) ==
    IF dataframe = <<>> THEN Num(0)
    ELSE IF kpi = "Sales" THEN Num(ColumnSum(dataframe, "Sales"))
    ELSE IF kpi = "Quantity" THEN Num(ColumnSum(dataframe, "Quantity"))
    ELSE IF kpi = "Profit" THEN Num(ColumnSum(dataframe, "Profit"))
    ELSE MarginOrZero(ColumnSum(dataframe, "Profit"), ColumnSum(dataframe, "Sales"))

\* The change without the test of the previous value.
KpiChangeUnguarded(current, previous) ==
    Mul(Div(Sub(current, previous), previous), Num(100))

\* Lines 218-221: the change from the previous period, in percent.
KpiChange(current, previous) ==
    IF previous /= Num(0)
    THEN Mul(Div(Sub(current, previous), previous), Num(100))
    ELSE Num(0)

\* Lines 199-221: the KPI radio and the period comparison.
PeriodComparison ==
    /\ pc = "compare"
    /\ \E k \in 1..Len(kpi_options) : selected_kpi' = kpi_options[k]
    /\ current_kpi_value' = get_kpi_value(df_filtered, selected_kpi')
    /\ previous_kpi_value' = get_kpi_value(df_previous, selected_kpi')
    /\ kpi_change' = KpiChange(current_kpi_value', previous_kpi_value')
    /\ pc' = "charts"
    /\ UNCHANGED <<df_original, regionVars, stateVars, categoryVars, subcatVars,
                   df_filtered, dateVars, time_granularity, currentVars,
                   previousVars, chartVars>>

-----------------------------------------------------------------------------
(* The charts: the time series and the top products.                       *)

\* The rows shown in the top products chart: head(10).
TopN == 10

RECURSIVE Ascending(_)
\* The elements of a finite set of integers in ascending order.
Ascending(S) ==
    IF S = {} THEN <<>>
    ELSE LET m == CHOOSE x \in S : \A y \in S : x <= y
         IN  <<m>> \o Ascending(S \ {m})

\* An aggregation that takes each group's first row in the place of its sum.
AggFirst(members) ==
    IF members = <<>> THEN [Sales |-> 0, Quantity |-> 0, Profit |-> 0]
    ELSE [Sales |-> members[1].Sales,
          Quantity |-> members[1].Quantity,
          Profit |-> members[1].Profit]

\* .agg({"Sales": "sum", "Quantity": "sum", "Profit": "sum"}) of one group.
AggSums(members) ==
    [Sales |-> ColumnSum(members, "Sales"),
     Quantity |-> ColumnSum(members, "Quantity"),
     Profit |-> ColumnSum(members, "Profit")]

\* Line 240: df.groupby("Order Date"): one row per order date of the frame,
\* ascending.
GroupByOrderDate(df) ==
    LET keys == Ascending({df[i].OrderDate : i \in 1..Len(df)})
    IN  [k \in 1..Len(keys) |->
            [OrderDate |-> keys[k]]
            @@ AggSums(SelectSeq(df, LAMBDA r : r.OrderDate = keys[k]))]

\* The label of the bin of a day under pd.Grouper(freq=...), freq "W" or "M".
BinLabel(day, freq) == IF freq = "W" THEN WeekEnd(day) ELSE MonthEnd(day)

\* Lines 242 and 244: df.groupby(pd.Grouper(key="Order Date", freq=...)): one
\* row per bin from the bin of the first order date to the bin of the last,
\* ascending by the bin's label; a bin without rows sums to 0.
GroupByGrouper(df, freq) ==
    LET keys == Ascending({BinLabel(d, freq) : d \in DateMin(df)..DateMax(df)})
    IN  [k \in 1..Len(keys) |->
            [OrderDate |-> keys[k]]
            @@ AggSums(SelectSeq(df, LAMBDA r : BinLabel(r.OrderDate, freq) = keys[k]))]

\* Lines 239-244: the group-by of the selected granularity.
GroupByGranularity(df, granularity) ==
    IF granularity = "Daily" THEN GroupByOrderDate(df)
    ELSE IF granularity = "Weekly" THEN GroupByGrouper(df, "W")
    ELSE GroupByGrouper(df, "M")

\* Line 249: df.groupby("Product Name"): one row per product, ascending by name.
GroupByProduct(df) ==
    LET keys == Ascending({df[i].ProductName : i \in 1..Len(df)})
    IN  [k \in 1..Len(keys) |->
            [ProductName |-> keys[k]]
            @@ AggSums(SelectSeq(df, LAMBDA r : r.ProductName = keys[k]))]

\* Series.replace(0, 1) on one value.
Replace0By1(x) == IF x = 0 THEN 1 ELSE x

\* Lines 246 and 250: rows["Margin Rate"] = rows["Profit"] / rows["Sales"].replace(0, 1)
WithMarginRate(rows) ==
    [i \in 1..Len(rows) |->
        rows[i] @@ [MarginRate |-> Div(Num(rows[i].Profit),
                                       Num(Replace0By1(rows[i].Sales)))]]

\* row[kpi], as a fraction.
KpiOf(row, kpi) ==
    IF kpi = "Margin Rate" THEN row.MarginRate ELSE Num(row[kpi])

RECURSIVE DescendingOrders(_, _, _)
\* The orders of the rows of index set I in which no row comes after a row of
\* a smaller KPI value.
DescendingOrders(rows, kpi, I) ==
    IF I = {} THEN {<<>>}
    ELSE UNION {
            {<<rows[i]>> \o rest : rest \in DescendingOrders(rows, kpi, I \ {i})} :
            i \in {i \in I : \A j \in I : ~Less(KpiOf(rows[i], kpi), KpiOf(rows[j], kpi))}}

\* Line 251: rows.sort_values(by=kpi, ascending=False), with the default
\* kind="quicksort", which is not a stable sort: rows of equal KPI value come
\* out in any order.
sort_values(rows, kpi) == DescendingOrders(rows, kpi, 1..Len(rows))

\* Line 252: rows.head(n).
head(rows, n) == SubSeq(rows, 1, IF Len(rows) < n THEN Len(rows) ELSE n)

\* Lines 235-252: the warning, or the data of the two charts.
Charts ==
    /\ pc = "charts"
    /\ IF df_filtered = <<>>
       THEN /\ no_data_warning' = TRUE
            /\ UNCHANGED <<grouped, product_grouped, top_10>>
       ELSE /\ grouped' = WithMarginRate(GroupByGranularity(df_filtered, time_granularity))
            /\ \E sorted \in sort_values(WithMarginRate(GroupByProduct(df_filtered)),
                                         selected_kpi) :
                /\ product_grouped' = sorted
                /\ top_10' = head(sorted, TopN)
            /\ UNCHANGED no_data_warning
    /\ pc' = "done"
    /\ UNCHANGED <<df_original, regionVars, stateVars, categoryVars, subcatVars,
                   df_filtered, dateVars, time_granularity, currentVars,
                   previousVars, compareVars>>

\* An interaction: Streamlit runs the script again from the top, on the cached
\* data frame.
Rerun ==
    /\ pc = "done"
    /\ pc' = "regions"
    /\ all_regions' = {} /\ all_states' = {}
    /\ all_categories' = {} /\ all_subcats' = {}
    /\ selected_regions' = {} /\ selected_states' = {}
    /\ selected_categories' = {} /\ selected_subcats' = {}
    /\ df_filtered' = <<>>
    /\ min_date' = 0 /\ max_date' = 0 /\ from_date' = 0 /\ to_date' = 0
    /\ date_error' = FALSE
    /\ time_granularity' = "Daily"
    /\ total_sales' = 0 /\ total_quantity' = 0 /\ total_profit' = 0
    /\ margin_rate' = Num(0)
    /\ previous_from' = 0 /\ previous_to' = 0 /\ df_previous' = <<>>
    /\ prev_sales' = 0 /\ prev_quantity' = 0 /\ prev_profit' = 0
    /\ prev_margin' = Num(0)
    /\ selected_kpi' = "Sales"
    /\ current_kpi_value' = Num(0) /\ previous_kpi_value' = Num(0)
    /\ kpi_change' = Num(0)
    /\ no_data_warning' = FALSE
    /\ grouped' = <<>> /\ product_grouped' = <<>> /\ top_10' = <<>>
    /\ UNCHANGED df_original

Next ==
    \/ RegionFilter
    \/ StateFilter
    \/ CategoryFilter
    \/ SubCategoryFilter
    \/ DateRange
    \/ TimeGranularity
    \/ CurrentKpis
    \/ PreviousPeriod
    \/ PeriodComparison
    \/ Charts
    \/ Rerun

Spec == Init /\ [][Next]_vars

-----------------------------------------------------------------------------
(* The properties.                                                         *)

\* The sections after the date filter, after the current KPIs, after the
\* previous period and after the period comparison.
Filtered == {"granularity", "kpis", "previous", "compare", "charts", "done"}
Summed == {"previous", "compare", "charts", "done"}
Preceded == {"compare", "charts", "done"}
Compared == {"charts", "done"}

SomeSelectionEmpty ==
    \/ selected_regions = {}
    \/ selected_states = {}
    \/ selected_categories = {}
    \/ selected_subcats = {}

\* C1, as claimed: once the filter step is over, the filtered record set is
\* empty whenever the selection of at least one categorical dimension is empty.
C1_EmptySelectionExcludesAll ==
    (pc \in Filtered /\ SomeSelectionEmpty) => df_filtered = <<>>

\* C1, amended: an empty selection for a categorical dimension is no filter:
\* the cascade step of that dimension leaves the record set as it was.
C1_EmptySelectionIsNoFilter ==
    [][/\ (pc = "regions" /\ selected_regions' = {}) => df_filtered' = df_original
       /\ (pc = "states" /\ selected_states' = {}) => df_filtered' = df_filtered
       /\ (pc = "categories" /\ selected_categories' = {}) => df_filtered' = df_filtered
       /\ (pc = "subcats" /\ selected_subcats' = {}) => df_filtered' = df_filtered]_vars

\* C1, witness: the Region selection was emptied although regions were
\* offered, and rows of several regions are left after the filter step.
C1_Witness ==
    /\ pc = "granularity"
    /\ selected_regions = {}
    /\ Cardinality(all_regions) = 2
    /\ Cardinality({df_filtered[i].Region : i \in 1..Len(df_filtered)}) = 2

\* C2: with every dimension's full list of distinct values selected and the
\* date range from the first to the last order date, the filter returns the
\* original record set, also when a categorical value is missing.
C2_FullSelectionReturnsAll ==
    (/\ pc \in Filtered
     /\ selected_regions = all_regions
     /\ selected_states = all_states
     /\ selected_categories = all_categories
     /\ selected_subcats = all_subcats
     /\ from_date = DateMin(df_original)
     /\ to_date = DateMax(df_original))
    => df_filtered = df_original

\* C3: for from <= to the previous period is as long as the current one, ends
\* the day before from and shares no day with the current period; the period
\* before 2024-02-01 .. 2024-02-10 is 2024-01-22 .. 2024-01-31.
C3_PreviousPeriod ==
    (pc \in Preceded /\ from_date <= to_date) =>
        /\ previous_to - previous_from + 1 = to_date - from_date + 1
        /\ previous_to = from_date - 1
        /\ (previous_from..previous_to) \cap (from_date..to_date) = {}
        /\ (from_date = Date(2, 1) /\ to_date = Date(2, 10)) =>
                (previous_from = Date(1, 22) /\ previous_to = Date(1, 31))

\* C3, witness: the previous period of 2024-02-01 .. 2024-02-10 was computed.
C3_Witness ==
    pc = "compare" /\ from_date = Date(2, 1) /\ to_date = Date(2, 10)

\* Profit / Sales when Sales is not 0, and 0 when it is.
IsZeroSafeMargin(row) ==
    IF row.Sales /= 0
    THEN /\ row.MarginRate.d > 0
         /\ row.MarginRate.n * row.Sales = row.Profit * row.MarginRate.d
    ELSE row.MarginRate = Num(0)

\* C4: every row of the time series and of the product rollup has
\* MarginRate = Profit / Sales when its Sales is not 0, and MarginRate 0 when
\* its Sales is 0, whatever its Profit.
C4_MarginRateZeroSafe ==
    pc = "done" =>
        /\ \A k \in 1..Len(grouped) : IsZeroSafeMargin(grouped[k])
        /\ \A k \in 1..Len(product_grouped) : IsZeroSafeMargin(product_grouped[k])

\* The order date is a day of the bucket labelled by label.
InBucket(date, label, granularity) ==
    IF granularity = "Daily" THEN date = label
    ELSE IF granularity = "Weekly" THEN label - 6 <= date /\ date <= label
    ELSE MonthOf(date) = MonthOf(label) /\ date <= label

\* The rows of the filtered record set that fall in the k-th bucket.
Members(k) ==
    SelectSeq(df_filtered,
              LAMBDA r : InBucket(r.OrderDate, grouped[k].OrderDate, time_granularity))

\* C5: the time series has a bucket only if a record falls in it.
C5_NoEmptyBucket ==
    (pc = "done" /\ df_filtered /= <<>>) =>
        \A k \in 1..Len(grouped) : Members(k) /= <<>>

\* C6: the time series is lossless: the buckets' Sales, Quantity and Profit
\* add up to the scalar totals, each bucket holds the sums of the records that
\* fall in it, and every record falls in exactly one bucket.
C6_TimeSeriesLossless ==
    (pc = "done" /\ df_filtered /= <<>>) =>
        /\ ColumnSum(grouped, "Sales") = total_sales
        /\ ColumnSum(grouped, "Quantity") = total_quantity
        /\ ColumnSum(grouped, "Profit") = total_profit
        /\ \A k \in 1..Len(grouped) :
                /\ grouped[k].Sales = ColumnSum(Members(k), "Sales")
                /\ grouped[k].Quantity = ColumnSum(Members(k), "Quantity")
                /\ grouped[k].Profit = ColumnSum(Members(k), "Profit")
        /\ \A i \in 1..Len(df_filtered) :
                Cardinality({k \in 1..Len(grouped) :
                    InBucket(df_filtered[i].OrderDate, grouped[k].OrderDate,
                             time_granularity)}) = 1

\* C6, witness: a monthly series in which one bucket sums two records of
\* different days.
C6_Witness ==
    /\ pc = "done"
    /\ time_granularity = "Monthly"
    /\ \E k \in 1..Len(grouped) :
            /\ Len(Members(k)) = 2
            /\ Members(k)[1].OrderDate /= Members(k)[2].OrderDate
    /\ total_sales /= 0

RECURSIVE StableDescending(_, _, _)
\* The rows of index set I, descending by the KPI, rows of equal KPI value in
\* their order in rows.
StableDescending(rows, kpi, I) ==
    IF I = {} THEN <<>>
    ELSE LET top == {i \in I : \A j \in I : ~Less(KpiOf(rows[i], kpi), KpiOf(rows[j], kpi))}
             first == CHOOSE i \in top : \A j \in top : i <= j
         IN  <<rows[first]>> \o StableDescending(rows, kpi, I \ {first})

\* The product rollup of the filtered record set, in the order of the group-by.
Rollup == WithMarginRate(GroupByProduct(df_filtered))

\* C7: the top-N list is the product rollup sorted descending by the selected
\* KPI, products of equal KPI value in their order in the rollup, cut to the
\* first 10 rows.
C7_TopNStableDescending ==
    (pc = "done" /\ df_filtered /= <<>>) =>
        top_10 = head(StableDescending(Rollup, selected_kpi, 1..Len(Rollup)), TopN)

\* What holds of the top-N list whatever the order of equal values: the list
\* is descending by the selected KPI, has at most 10 rows, each a row of the
\* rollup and none twice, and no row left out has a greater KPI value than a
\* row of the list.
TopNDescending ==
    (pc = "done" /\ df_filtered /= <<>>) =>
        /\ Len(top_10) = (IF Len(Rollup) < TopN THEN Len(Rollup) ELSE TopN)
        /\ \A i \in 1..Len(top_10) : \E k \in 1..Len(Rollup) : top_10[i] = Rollup[k]
        /\ \A i, j \in 1..Len(top_10) : i < j =>
                /\ top_10[i].ProductName /= top_10[j].ProductName
                /\ ~Less(KpiOf(top_10[i], selected_kpi), KpiOf(top_10[j], selected_kpi))
        /\ \A k \in 1..Len(Rollup) :
                (\A i \in 1..Len(top_10) : top_10[i] /= Rollup[k]) =>
                    \A i \in 1..Len(top_10) :
                        ~Less(KpiOf(top_10[i], selected_kpi), KpiOf(Rollup[k], selected_kpi))

\* A rollup of more than 10 products was ranked by Profit and cut.
TopNCut ==
    pc = "done" /\ Len(product_grouped) > TopN /\ Len(top_10) = TopN
    /\ selected_kpi = "Profit"

\* The selected KPI of the previous period, from the current-period and
\* previous-period sums of lines 90-121.
PreviousKpi ==
    IF selected_kpi = "Sales" THEN Num(prev_sales)
    ELSE IF selected_kpi = "Quantity" THEN Num(prev_quantity)
    ELSE IF selected_kpi = "Profit" THEN Num(prev_profit)
    ELSE prev_margin

CurrentKpi ==
    IF selected_kpi = "Sales" THEN Num(total_sales)
    ELSE IF selected_kpi = "Quantity" THEN Num(total_quantity)
    ELSE IF selected_kpi = "Profit" THEN Num(total_profit)
    ELSE margin_rate

\* C8: the change is 0 when the previous period's KPI value is 0, as it is when
\* the previous period has no records, and (current - previous) / previous * 100
\* otherwise; nothing is divided by zero.
C8_PercentChange ==
    pc \in Compared =>
        /\ previous_kpi_value = PreviousKpi
        /\ current_kpi_value = CurrentKpi
        /\ df_previous = <<>> => previous_kpi_value = Num(0)
        /\ previous_kpi_value = Num(0) => kpi_change = Num(0)
        /\ previous_kpi_value /= Num(0) =>
                /\ kpi_change.d > 0
                /\ kpi_change.n * current_kpi_value.d * previous_kpi_value.n
                     = 100 * kpi_change.d
                         * (current_kpi_value.n * previous_kpi_value.d
                              - previous_kpi_value.n * current_kpi_value.d)
        /\ kpi_change /= DivByZero
        /\ current_kpi_value /= DivByZero
        /\ previous_kpi_value /= DivByZero

\* C8, witness: the previous period has records, its KPI value is 0 and the
\* current value is not.
C8_Witness ==
    /\ pc = "charts"
    /\ df_previous /= <<>>
    /\ previous_kpi_value = Num(0)
    /\ current_kpi_value /= Num(0)

\* C9: an inverted date range raises the error, the date filter is still
\* applied and leaves no record, the run goes on, and Sales, Quantity, Profit
\* and MarginRate are all 0.
C9_InvertedRange ==
    /\ (pc \in Filtered /\ from_date > to_date) =>
            (date_error /\ df_filtered = <<>>)
    /\ (pc \in Summed /\ from_date > to_date) =>
            /\ total_sales = 0
            /\ total_quantity = 0
            /\ total_profit = 0
            /\ margin_rate = Num(0)
    /\ (pc = "done" /\ from_date > to_date) => no_data_warning
    /\ (pc \in Filtered /\ from_date <= to_date) => ~date_error

\* C9, witness: a run with an inverted range over a frame with records on
\* both days came to its end.
C9_Witness ==
    /\ pc = "done"
    /\ from_date > to_date
    /\ \E i, j \in 1..Len(df_original) :
            /\ df_original[i].OrderDate = from_date
            /\ df_original[j].OrderDate = to_date
            /\ df_original[i].Sales /= 0

\* The rows of df are rows of df_original, unchanged and in their order.
IsSubFrame(df) ==
    /\ \A i \in 1..Len(df) :
            /\ df[i].Index + 1 \in 1..Len(df_original)
            /\ df[i] = df_original[df[i].Index + 1]
    /\ \A i, j \in 1..Len(df) : i < j => df[i].Index < df[j].Index

\* C10: the filtered record set is a sub-sequence of the original record set
\* (unmodified rows, in their order, none twice), and the original record set
\* is left as it was loaded.
C10_FilteredIsSubsequence ==
    /\ [](IsSubFrame(df_filtered))
    /\ [][df_original' = df_original]_vars

\* C10, witness: the filter step kept a later row and dropped an earlier one.
C10_Witness ==
    /\ pc = "granularity"
    /\ Len(df_filtered) > 0
    /\ Len(df_filtered) < Len(df_original)
    /\ df_filtered[1].Index > 0
====
